---- MODULE Spec2Model ----
(***************************************************************************)
(* FedEx shipment tracker: the bulk-upload pipeline (app3.py, bulk page),  *)
(* the batch store (db_helper.py), the batch-results view (results page),  *)
(* the analytics page, the single-lookup page, and login and navigation.   *)
(*                                                                         *)
(* Every browser session runs the Streamlit script on its own; the         *)
(* sessions share the two Supabase tables.  One action of a session is one *)
(* blocking call of the script (an HTTP request to FedEx or one statement  *)
(* sent to the store) together with the Python code that follows it up to  *)
(* the next blocking call.                                                 *)
(***************************************************************************)
EXTENDS Integers, Sequences, FiniteSets, TLC

VARIABLES
    references_data,   \* table references_data: rows (reference_id, upload_time)
    tracking_datanew,  \* table tracking_datanew: rows (id, reference_id, tracking_number, raw_json)
    writer,            \* history: writer[i] is the session that inserted tracking_datanew[i]
    now,               \* the last value datetime.now() gave to an upsert
    pc,                \* per session: the blocking call the bulk page is at
    tracking_numbers,  \* per session: the identifiers read from the uploaded file
    reference_id,      \* per session: the reference generated for the run
    idx,               \* per session: position of the for-loop in tracking_numbers
    result,            \* per session: the value track_shipment returned for the current identifier
    success_count,     \* per session: the counter of the bulk page
    status,            \* per session: how the run of the bulk page ended
    messages,          \* per session: what the page has shown (st.warning, st.error, st.success)
    calls,             \* per session: the outbound calls made so far, in order
    all_results,       \* results page: the table built from the selected batch
    selected_ref_id,   \* results page: st.session_state.selected_ref_id
    analytics,         \* analytics page: what the last run of the page computed and showed
    single_page,       \* single page: what the last click on "Track Shipment" showed
    session_state,     \* per session: st.session_state (logged_in, current_page)
    script_runs        \* per session: the last interaction and the script runs it caused

vars == << references_data, tracking_datanew, writer, now, pc, tracking_numbers,
           reference_id, idx, result, success_count, status, messages, calls,
           all_results, selected_ref_id, analytics, single_page,
           session_state, script_runs >>

storeVars == << references_data, tracking_datanew, writer, now >>
viewVars  == << all_results, selected_ref_id >>
navVars   == << session_state, script_runs >>
pageVars  == << analytics, single_page, navVars >>
bulkVars  == << pc, tracking_numbers, reference_id, idx, result, success_count,
                status, messages, calls >>

(***************************************************************************)
(* Bounds                                                                  *)
(***************************************************************************)
MaxLen      == 2   \* longest list of tracking numbers uploaded by session u1
MaxLenOther == 1   \* longest list uploaded by the concurrent session u2
MaxRows     == 2   \* most records in the store when the results page is studied
MaxEvents   == 3   \* longest scanEvents list of a response
MaxImages   == 2   \* longest availableImages list of a response

Sessions == {"u1", "u2"}
TrackingNumberValues == {"A", "B"}
RefIds == {"REF-1", "REF-2"}

SeqsUpTo(S, n) == UNION { [1..k -> S] : k \in 0..n }

\* the elements of s at the positions in S, in order
AtPositions(s, S) ==
    LET pick[i \in 0..Len(s)] ==
            IF i = 0 THEN << >>
            ELSE IF i \in S THEN Append(pick[i - 1], s[i]) ELSE pick[i - 1]
    IN pick[Len(s)]

\* the files a session may upload: the concurrent session u2 uploads shorter
\* files, over one tracking number that the files of u1 may hold too
Files(p) ==
    IF p = "u1" THEN SeqsUpTo(TrackingNumberValues, MaxLen)
    ELSE SeqsUpTo({"A"}, MaxLenOther)

(***************************************************************************)
(* JSON documents: a Python dict is a function on its keys, a list is a    *)
(* sequence.                                                               *)
(***************************************************************************)
EmptyDict == [k \in {} |-> k]

\* dict.get(key, default)
Get(d, k, default) == IF k \in DOMAIN d THEN d[k] ELSE default

NA == "N/A"


(***************************************************************************)
(* Responses of the tracking endpoint that the bulk page can store.        *)
(***************************************************************************)
TrackInfo(st) == [latestStatusDetail |-> [statusByLocale |-> st]]

\* a complete response: output.completeTrackResults[0].trackResults[0]
RawFull(tn, st) ==
    [output |-> [completeTrackResults |->
        << [trackingNumber |-> tn, trackResults |-> << TrackInfo(st) >>] >>]]

\* completeTrackResults[0] carries the number FedEx echoes, but no trackResults
RawNoTrackResults(tn) ==
    [output |-> [completeTrackResults |-> << [trackingNumber |-> tn] >>]]

\* a 200 response without output
RawNoOutput == [transactionId |-> "t-1"]

\* the 200 responses the tracking endpoint gives for an identifier
FetchedRaws(tn) == { RawFull(tn, "Delivered") }

\* Python's None, and the truthiness of the value track_shipment returns
None == [py_none |-> TRUE]
\* (variant: line 277 without the test)
TruthyAlways(r) == TRUE
Truthy(r) == r # None /\ r # EmptyDict

(***************************************************************************)
(* db_helper.py                                                            *)
(***************************************************************************)
\* generate_reference: "REF-<second>-<6 random characters>"; nothing makes
\* two calls differ
generate_reference == RefIds

RefIndex(table, ref) == { i \in 1..Len(table) : table[i].reference_id = ref }

\* (variant: an UPDATE that never inserts)
UpsertReferenceUpdateOnly(table, ref, t) ==
    [i \in 1..Len(table) |->
        IF table[i].reference_id = ref
        THEN [reference_id |-> ref, upload_time |-> t]
        ELSE table[i]]
\* (variant: a plain insert into a table without the unique constraint)
UpsertReferenceInsert(table, ref, t) ==
    Append(table, [reference_id |-> ref, upload_time |-> t])
\* supabase.table('references_data').upsert({...}, on_conflict='reference_id'):
\* INSERT ... ON CONFLICT (reference_id) DO UPDATE SET upload_time = excluded.upload_time
UpsertReference(table, ref, t) ==
    IF RefIndex(table, ref) = {}
    THEN Append(table, [reference_id |-> ref, upload_time |-> t])
    ELSE [i \in 1..Len(table) |->
            IF table[i].reference_id = ref
            THEN [reference_id |-> ref, upload_time |-> t]
            ELSE table[i]]

\* supabase.table('tracking_datanew').insert({...})
InsertTracking(table, ref, tn, raw) ==
    Append(table, [id |-> Len(table) + 1, reference_id |-> ref,
                   tracking_number |-> tn, raw_json |-> raw])

\* select('*').eq('reference_id', reference_id)
TrackingOf(table, ref) == SelectSeq(table, LAMBDA row : row.reference_id = ref)

\* get_tracking_json(reference_id)
get_tracking_json(ref) == TrackingOf(tracking_datanew, ref)

\* get_all_references(): ordered by upload_time, descending
RECURSIVE SortDesc(_)
SortDesc(rows) ==
    IF rows = {} THEN << >>
    ELSE LET top == CHOOSE r \in rows : \A q \in rows : q.upload_time <= r.upload_time
         IN << top >> \o SortDesc(rows \ {top})

get_all_references == SortDesc({ references_data[i] : i \in 1..Len(references_data) })


(***************************************************************************)
(* Initial state: empty tables, every session in front of the bulk page.   *)
(***************************************************************************)
Init ==
    /\ references_data = << >>
    /\ tracking_datanew = << >>
    /\ writer = << >>
    /\ now = 0
    /\ pc = [p \in Sessions |-> "idle"]
    /\ tracking_numbers = [p \in Sessions |-> << >>]
    /\ reference_id = [p \in Sessions |-> "none"]
    /\ idx = [p \in Sessions |-> 0]
    /\ result = [p \in Sessions |-> None]
    /\ success_count = [p \in Sessions |-> 0]
    /\ status = [p \in Sessions |-> "none"]
    /\ messages = [p \in Sessions |-> << >>]
    /\ calls = [p \in Sessions |-> << >>]
    /\ all_results = << >>
    /\ selected_ref_id = "none"
    /\ analytics = [shown |-> "nothing"]
    /\ single_page = [shown |-> "nothing"]
    /\ session_state = [p \in Sessions |-> EmptyDict]
    /\ script_runs = [p \in Sessions |-> [widget |-> [button |-> "none"], runs |-> << >>]]

Say(p, m) == messages' = [messages EXCEPT ![p] = messages[p] \o m]

\* the log of the calls that have returned (or raised), with what came back
Log(p, c) == calls' = [calls EXCEPT ![p] = Append(calls[p], c)]

(***************************************************************************)
(* app3.py, bulk page                                                      *)
(***************************************************************************)
\* lines 258-267: the file is read, the reference generated, and the script
\* blocks in get_access_token
Upload(p) ==
    /\ pc[p] = "idle"
    /\ \E tns \in Files(p), ref \in generate_reference :
          /\ tracking_numbers' = [tracking_numbers EXCEPT ![p] = tns]
          /\ reference_id' = [reference_id EXCEPT ![p] = ref]
    /\ pc' = [pc EXCEPT ![p] = "auth"]
    /\ UNCHANGED << storeVars, idx, result, success_count, status, messages, calls,
                    viewVars, pageVars >>

\* lines 284-286 when the loop is over, otherwise the next track_shipment
LoopFrom(p, i, count, said) ==
    /\ idx' = [idx EXCEPT ![p] = i]
    /\ IF i <= Len(tracking_numbers[p])
       THEN /\ pc' = [pc EXCEPT ![p] = "fetch"]
            /\ status' = status
            /\ Say(p, said)
       ELSE /\ pc' = [pc EXCEPT ![p] = "done"]
            /\ status' = [status EXCEPT ![p] = "success"]
            /\ Say(p, said \o << [kind |-> "success", reference_id |-> reference_id[p],
                                  saved |-> count] >>)

\* line 288: any exception inside the try block ends the run of the page
Abandon(p, said) ==
    /\ pc' = [pc EXCEPT ![p] = "done"]
    /\ status' = [status EXCEPT ![p] = "error"]
    /\ Say(p, said \o << [kind |-> "processing_error"] >>)
    /\ UNCHANGED idx

\* get_access_token (lines 58-70): the token of a 200 response, else None
get_access_token(status_code) == IF status_code = 200 THEN "access-token" ELSE "None"

\* (variant: line 269 never true)
NoTokenNever(access_token) == FALSE
\* line 269: not access_token
NoToken(access_token) == access_token = "None"

\* the token request returns or raises (status_code 0: no response); lines 269-276
Authenticate(p) ==
    /\ pc[p] = "auth"
    /\ \E status_code \in {200, 401, 0} :
          /\ Log(p, [fn |-> "get_access_token", status_code |-> status_code])
          /\ IF status_code = 0
             THEN Abandon(p, << >>)
             ELSE IF NoToken(get_access_token(status_code))
             THEN /\ pc' = [pc EXCEPT ![p] = "done"]
                  /\ status' = [status EXCEPT ![p] = "aborted"]
                  /\ Say(p, << [kind |-> "auth_failed"], [kind |-> "upload_aborted"] >>)
                  /\ UNCHANGED idx
             ELSE LoopFrom(p, 1, 0, << >>)
    /\ UNCHANGED << storeVars, tracking_numbers, reference_id, result, success_count,
                    viewVars, pageVars >>

\* track_shipment (lines 72-88): the body of a 200 response, else None
track_shipment(status_code, body) == IF status_code = 200 THEN body ELSE None

\* line 279
Counted(count) == count + 1

\* the tracking request returns or raises (status_code 0: no response); lines 276-282
Fetch(p) ==
    LET tn == tracking_numbers[p][idx[p]] IN
    /\ pc[p] = "fetch"
    /\ \E status_code \in {200, 404, 0}, body \in FetchedRaws(tn) \cup {EmptyDict} :
          /\ status_code # 200 => body = EmptyDict
          /\ Log(p, [fn |-> "track_shipment", tn |-> tn, status_code |-> status_code,
                     body |-> body])
          /\ IF status_code = 0
             THEN /\ Abandon(p, << >>)
                  /\ UNCHANGED << result, success_count >>
             ELSE LET r == track_shipment(status_code, body) IN
                  /\ result' = [result EXCEPT ![p] = r]
                  /\ IF Truthy(r)
                     THEN /\ pc' = [pc EXCEPT ![p] = "upsert"]
                          /\ UNCHANGED << idx, status, messages, success_count >>
                     ELSE /\ LoopFrom(p, idx[p] + 1, success_count[p],
                                      << [kind |-> "fetch_failed", tn |-> tn] >>)
                          /\ UNCHANGED success_count
    /\ UNCHANGED << storeVars, tracking_numbers, reference_id, viewVars, pageVars >>

\* (variant: save_upload_with_json without its try/except, the exception of a
\* failed save reaches line 288)
SaveReturnedOrRaised(p, said) ==
    IF said # << >>
    THEN Abandon(p, said) /\ UNCHANGED success_count
    ELSE /\ success_count' = [success_count EXCEPT ![p] = success_count[p] + 1]
         /\ LoopFrom(p, idx[p] + 1, success_count[p] + 1, said)
\* save_upload_with_json returned (True or False); lines 278-282
SaveReturned(p, said) ==
    /\ success_count' = [success_count EXCEPT ![p] = Counted(success_count[p])]
    /\ LoopFrom(p, idx[p] + 1, Counted(success_count[p]), said)

\* db_helper.py lines 144-150: the exception is shown and swallowed
SaveError(tn) == << [kind |-> "save_error", tn |-> tn] >>

\* (variant: a plain insert, which raises on an existing reference_id)
UpsertRaisesOnConflict(table, ref, fault) == fault \/ RefIndex(table, ref) # {}
\* does the upsert raise?  Only on a fault of the store: on_conflict='reference_id'
\* makes an existing row no error
UpsertRaises(table, ref, fault) == fault

\* save_upload_with_json, lines 115-118: the upsert of the batch row, stamped
\* with the clock, which has advanced since the upsert before
SaveUpsert(p) ==
    LET tn  == tracking_numbers[p][idx[p]]
        ref == reference_id[p]
    IN
    /\ pc[p] = "upsert"
    /\ \E fault \in BOOLEAN :
          LET raised == UpsertRaises(references_data, ref, fault) IN
          /\ Log(p, [fn |-> "upsert", reference_id |-> ref, fault |-> fault,
                     ok |-> ~raised])
          /\ IF raised
             THEN /\ SaveReturned(p, SaveError(tn))
                  /\ UNCHANGED << references_data, now >>
             ELSE /\ now' = now + 1
                  /\ references_data' = UpsertReference(references_data, ref, now + 1)
                  /\ pc' = [pc EXCEPT ![p] = "insert"]
                  /\ UNCHANGED << idx, status, messages, success_count >>
    /\ UNCHANGED << tracking_datanew, writer, tracking_numbers, reference_id, result,
                    viewVars, pageVars >>

\* save_upload_with_json, lines 136-143: the insert of the tracking row
SaveInsert(p) ==
    LET tn  == tracking_numbers[p][idx[p]]
        ref == reference_id[p]
    IN
    /\ pc[p] = "insert"
    /\ \E fault \in BOOLEAN :
          /\ Log(p, [fn |-> "insert", reference_id |-> ref, tn |-> tn, ok |-> ~fault])
          /\ IF fault
             THEN /\ SaveReturned(p, SaveError(tn))
                  /\ UNCHANGED << tracking_datanew, writer >>
             ELSE /\ tracking_datanew' = InsertTracking(tracking_datanew, ref, tn, result[p])
                  /\ writer' = Append(writer, p)
                  /\ SaveReturned(p, << >>)
    /\ UNCHANGED << references_data, now, tracking_numbers, reference_id, result,
                    viewVars, pageVars >>

Next ==
    \E p \in Sessions :
        \/ Upload(p)
        \/ Authenticate(p)
        \/ Fetch(p)
        \/ SaveUpsert(p)
        \/ SaveInsert(p)

Spec == Init /\ [][Next]_vars


(***************************************************************************)
(* app3.py, results page: one stored response becomes one row of the table *)
(***************************************************************************)
\* a Python str where the column may also hold a Timestamp
PyStr(v) == [type |-> "str", value |-> v]
NaT == [type |-> "NaT"]
Timestamp(t) == [type |-> "Timestamp", t |-> t]
\* pd.Timestamp.min: earlier than every date of a response
TimestampMin == Timestamp(0)

\* the dates pandas can parse, as days; any other non-empty string raises.
\* The last one carries a UTC offset: tz_localize(None) keeps its wall-clock day.
DateStrings == { "2024-01-02", "2024-01-05", "2024-01-05T00:00:00-05:00" }
Day(v) == IF v = "2024-01-02" THEN 2 ELSE 5

\* pd.to_datetime(v) followed by the tz_localize(None) of lines 358-359
to_datetime(v) ==
    IF v \in DateStrings THEN Timestamp(Day(v))
    ELSE IF v = "" THEN NaT
    ELSE [type |-> "raises"]

\* lines 380-386 and 401-407: the Timestamp, or the string itself when parsing raises
ParsedOrRaw(v) == IF to_datetime(v).type = "raises" THEN PyStr(v) ELSE to_datetime(v)

\* event_date, lines 355-362
event_date(ev) ==
    IF to_datetime(Get(ev, "date", "")).type = "raises"
    THEN TimestampMin
    ELSE to_datetime(Get(ev, "date", ""))

\* a > b on Timestamps; every comparison with NaT is False
KeyGreater(a, b) == a.type = "Timestamp" /\ b.type = "Timestamp" /\ a.t > b.t

\* max(scan_events, key=event_date), line 398: the first element with the largest key
PyMax(events) ==
    LET best[i \in 1..Len(events)] ==
            IF i = 1 THEN events[1]
            ELSE IF KeyGreater(event_date(events[i]), event_date(best[i - 1]))
                 THEN events[i] ELSE best[i - 1]
    IN best[Len(events)]

\* ', '.join(loc_parts)
RECURSIVE Join(_)
Join(parts) ==
    IF Len(parts) = 1 THEN parts[1] ELSE parts[1] \o ", " \o Join(Tail(parts))

\* lines 408-414
ScanLocation(ev) ==
    LET scan_loc == Get(ev, "scanLocation", EmptyDict)
        keys == << "city", "stateOrProvinceCode", "countryCode", "postalCode" >>
        loc_parts == AtPositions(
            [i \in 1..4 |-> Get(scan_loc, keys[i], "")],
            { i \in 1..4 : Get(scan_loc, keys[i], "") # "" })
    IN IF loc_parts = << >> THEN NA ELSE Join(loc_parts)

\* lines 375-387: the first entry of dateAndTimes tagged ESTIMATED_DELIVERY
EstimatedDelivery(track_info) ==
    LET date_times_list == Get(track_info, "dateAndTimes", << >>)
        hits == { i \in 1..Len(date_times_list) :
                    Get(date_times_list[i], "type", "") = "ESTIMATED_DELIVERY" }
    IN IF hits = {} THEN PyStr(NA)
       ELSE ParsedOrRaw(Get(date_times_list[CHOOSE i \in hits : \A j \in hits : i <= j],
                            "dateTime", NA))

\* (variant: lines 390-394 without the break)
ProofOfDeliveryLast(track_info) ==
    LET pod_list == Get(track_info, "availableImages", << >>)
        hits == { i \in 1..Len(pod_list) : Get(pod_list[i], "type", "") # "" }
    IN IF hits = {} THEN NA
       ELSE pod_list[CHOOSE i \in hits : \A j \in hits : i >= j].type
\* lines 388-394: the type of the first entry of availableImages that has one
ProofOfDelivery(track_info) ==
    LET pod_list == Get(track_info, "availableImages", << >>)
        hits == { i \in 1..Len(pod_list) : Get(pod_list[i], "type", "") # "" }
    IN IF hits = {} THEN NA
       ELSE pod_list[CHOOSE i \in hits : \A j \in hits : i <= j].type

Row(tracking_num, st, est, pod, desc, date, loc) ==
    [Tracking_Number |-> tracking_num, Status |-> st, Estimated_Delivery |-> est,
     Proof_of_Delivery |-> pod, Latest_Event |-> desc, Event_Date |-> date,
     Location |-> loc]

\* (variant: the default of the analytics page, line 501, used for the sentinel)
SentinelRowUnknown(tracking_num) ==
    Row(tracking_num, "UNKNOWN", PyStr(NA), NA, NA, PyStr(NA), NA)
\* lines 420-425 and 428-433: every field is 'N/A'
SentinelRow(tracking_num) ==
    Row(tracking_num, NA, PyStr(NA), NA, NA, PyStr(NA), NA)

\* lines 374-418: the row of a response that has trackResults[0]
TrackInfoRow(tracking_num, track_info) ==
    LET st == Get(Get(track_info, "latestStatusDetail", EmptyDict), "statusByLocale", NA)
        scan_events == Get(track_info, "scanEvents", << >>)
    IN IF scan_events # << >>
       THEN LET latest_event == PyMax(scan_events) IN
            Row(tracking_num, st, EstimatedDelivery(track_info), ProofOfDelivery(track_info),
                Get(latest_event, "eventDescription", NA),
                ParsedOrRaw(Get(latest_event, "date", NA)),
                ScanLocation(latest_event))
       ELSE Row(tracking_num, st, EstimatedDelivery(track_info), ProofOfDelivery(track_info),
                NA, PyStr(NA), NA)

\* lines 365-443: the row appended to all_results for one stored entry
ResultRow(entry) ==
    LET tn == entry.tracking_number
        raw_json == entry.raw_json
        complete_results == Get(Get(raw_json, "output", EmptyDict), "completeTrackResults", << >>)
    IN IF complete_results # << >>
       THEN LET tracking_num == Get(complete_results[1], "trackingNumber", tn)
                track_results == Get(complete_results[1], "trackResults", << >>)
            IN IF track_results # << >>
               THEN TrackInfoRow(tracking_num, track_results[1])
               ELSE SentinelRow(tracking_num)
       ELSE SentinelRow(tn)

\* lines 446-450: sort_values(by='Event Date', ascending=False) inside try/except.
\* NaT sorts last; comparing a Timestamp with a str raises and leaves the table
\* as it was; the order of rows with equal dates is not fixed.
StrRank(v) == IF v = NA THEN 1 ELSE 2

MayPrecede(a, b) ==
    CASE b.type = "NaT" -> TRUE
      [] a.type = "NaT" -> FALSE
      [] a.type = "Timestamp" -> a.t >= b.t
      [] OTHER -> StrRank(a.value) >= StrRank(b.value)

SortRaises(rows) ==
    /\ \E i \in 1..Len(rows) : rows[i].Event_Date.type = "Timestamp"
    /\ \E i \in 1..Len(rows) : rows[i].Event_Date.type = "str"

Sorted(rows) ==
    IF SortRaises(rows) THEN { rows }
    ELSE LET n == Len(rows)
             perms == { f \in [1..n -> 1..n] : \A i, j \in 1..n : i # j => f[i] # f[j] }
         IN { [i \in 1..n |-> rows[f[i]]] : f \in
                { g \in perms : \A i \in 1..n - 1 :
                      MayPrecede(rows[g[i]].Event_Date, rows[g[i + 1]].Event_Date) } }

\* the button of line 345 for a batch the selectbox offers; lines 348-451
FetchResults ==
    /\ \E r \in 1..Len(get_all_references) :
          LET all_saved_data_for_ref == get_tracking_json(get_all_references[r].reference_id)
          IN /\ selected_ref_id' = get_all_references[r].reference_id
             /\ IF all_saved_data_for_ref = << >>
                THEN all_results' = << >>
                ELSE all_results' \in Sorted([i \in 1..Len(all_saved_data_for_ref) |->
                                                ResultRow(all_saved_data_for_ref[i])])
    /\ UNCHANGED << storeVars, bulkVars, pageVars >>

(***************************************************************************)
(* The responses a batch can hold when the results page reads it: every    *)
(* level of output.completeTrackResults[0].trackResults[0] present, empty  *)
(* or absent, with the number FedEx echoes equal to the stored one or not. *)
(***************************************************************************)
Event(desc, date, city) ==
    [eventDescription |-> desc, date |-> date, scanLocation |-> [city |-> city, countryCode |-> "US"]]

RichTrackInfo ==
    [latestStatusDetail |-> [statusByLocale |-> "In transit"],
     dateAndTimes |-> << [type |-> "ACTUAL_PICKUP", dateTime |-> "2024-01-02"],
                         [type |-> "ESTIMATED_DELIVERY", dateTime |-> "2024-01-05"] >>,
     availableImages |-> << [type |-> "SIGNATURE_PROOF_OF_DELIVERY"] >>,
     scanEvents |-> << Event("Picked up", "2024-01-02", "MEMPHIS"),
                       Event("Departed", "2024-01-05", ""),
                       Event("Label created", "not-a-date", "DALLAS") >>]

StoredRaws ==
    { RawNoOutput,
      [output |-> EmptyDict],
      [output |-> [alerts |-> "none"]],
      [output |-> [completeTrackResults |-> << >>]],
      RawNoTrackResults("A"),
      [output |-> [completeTrackResults |-> << [other |-> "x"] >>]],
      [output |-> [completeTrackResults |-> << [trackingNumber |-> "B", trackResults |-> << >>] >>]],
      [output |-> [completeTrackResults |-> << [trackResults |-> << >>] >>]],
      RawFull("A", "Delivered"),
      [output |-> [completeTrackResults |-> << [trackResults |-> << EmptyDict >>] >>]],
      [output |-> [completeTrackResults |->
          << [trackingNumber |-> "B", trackResults |-> << RichTrackInfo >>] >>]] }

\* save_upload_with_json run to its end without another session in between
StoreRecord ==
    /\ Len(tracking_datanew) < MaxRows
    /\ \E ref \in RefIds, tn \in TrackingNumberValues, raw \in StoredRaws :
          /\ references_data' = UpsertReference(references_data, ref, now + 1)
          /\ tracking_datanew' = InsertTracking(tracking_datanew, ref, tn, raw)
          /\ writer' = Append(writer, "u1")
    /\ now' = now + 1
    /\ UNCHANGED << bulkVars, viewVars, pageVars >>

ViewNext == StoreRecord \/ FetchResults

SpecView == Init /\ [][ViewNext]_vars

(***************************************************************************)
(* The results page over a batch of one record whose response has every    *)
(* level down to trackResults[0]; scanEvents or availableImages vary.      *)
(* An event is named after its position in the list.                       *)
(***************************************************************************)
\* the 'date' of a scan event: absent, empty, not a date, or a date
EventDates == { EmptyDict } \cup { [date |-> d] : d \in DateStrings \cup { "", "not-a-date" } }

ScanEventLists ==
    UNION { { [i \in 1..k |-> [eventDescription |-> "e" \o ToString(i)] @@ c[i]] :
                c \in [1..k -> EventDates] } : k \in 1..MaxEvents }

\* the 'type' of an available image: absent, empty, or one of two types
ImageTypes == { EmptyDict } \cup { [type |-> t] : t \in { "", "SIGNATURE_PROOF_OF_DELIVERY", "PICTURE_PROOF_OF_DELIVERY" } }

ImageLists == UNION { [1..k -> ImageTypes] : k \in 0..MaxImages }

RawWith(track_info) ==
    [output |-> [completeTrackResults |->
        << [trackingNumber |-> "A", trackResults |-> << track_info >>] >>]]

ScannedRaws ==
    { RawWith([latestStatusDetail |-> [statusByLocale |-> "In transit"], scanEvents |-> evs]) :
        evs \in ScanEventLists }

ProofRaws ==
    { RawWith([latestStatusDetail |-> [statusByLocale |-> "Delivered"], availableImages |-> imgs]) :
        imgs \in ImageLists }

\* save_upload_with_json for the only identifier of a batch
StoreOne(raws) ==
    /\ tracking_datanew = << >>
    /\ \E raw \in raws :
          /\ references_data' = UpsertReference(references_data, "REF-1", now + 1)
          /\ tracking_datanew' = InsertTracking(tracking_datanew, "REF-1", "A", raw)
          /\ writer' = Append(writer, "u1")
    /\ now' = now + 1
    /\ UNCHANGED << bulkVars, viewVars, pageVars >>

StoreScanned == StoreOne(ScannedRaws)

ScanNext == StoreScanned \/ FetchResults

SpecScan == Init /\ [][ScanNext]_vars

(***************************************************************************)
(* app3.py, analytics page                                                 *)
(***************************************************************************)
\* the characters of the strings the page tests
Chars(s) ==
    CASE s = "Delivered" -> << "D", "e", "l", "i", "v", "e", "r", "e", "d" >>
      [] s = "delivered" -> << "d", "e", "l", "i", "v", "e", "r", "e", "d" >>
      [] s = "In transit" -> << "I", "n", " ", "t", "r", "a", "n", "s", "i", "t" >>
      [] s = "Delivery exception" -> << "D", "e", "l", "i", "v", "e", "r", "y", " ", "e", "x", "c", "e", "p", "t", "i", "o", "n" >>
      [] s = "SHIPMENT EXCEPTION" -> << "S", "H", "I", "P", "M", "E", "N", "T", " ", "E", "X", "C", "E", "P", "T", "I", "O", "N" >>
      [] s = "UNKNOWN" -> << "U", "N", "K", "N", "O", "W", "N" >>
      [] s = "exception" -> << "e", "x", "c", "e", "p", "t", "i", "o", "n" >>

UpperCase == << "A", "B", "C", "D", "E", "F", "G", "H", "I", "J", "K", "L", "M", "N", "O", "P", "Q", "R", "S", "T", "U", "V", "W", "X", "Y", "Z" >>
LowerCase == << "a", "b", "c", "d", "e", "f", "g", "h", "i", "j", "k", "l", "m", "n", "o", "p", "q", "r", "s", "t", "u", "v", "w", "x", "y", "z" >>

\* str.lower() of one character
LowerChar(c) ==
    IF \E i \in 1..26 : UpperCase[i] = c
    THEN LowerCase[CHOOSE i \in 1..26 : UpperCase[i] = c]
    ELSE c

Lower(cs) == [i \in 1..Len(cs) |-> LowerChar(cs[i])]

Occurs(pat, cs) ==
    \E i \in 1..(Len(cs) - Len(pat) + 1) : SubSeq(cs, i, i + Len(pat) - 1) = pat

\* (variant: case=True)
StrContainsCase(s, pat) == Occurs(Chars(pat), Chars(s))
\* Series.str.contains(pat, case=False, na=False) on one value
StrContains(s, pat) == Occurs(Lower(Chars(pat)), Lower(Chars(s)))

\* a float, in tenths
Float(n) == [type |-> "float", tenths |-> n]
NaN == [type |-> "NaN"]

\* float(v): the strings that are numbers; anything else raises ValueError
FloatStrings == { "12.5", "3" }
Tenths(v) == IF v = "12.5" THEN 125 ELSE 30

\* lines 504-510
WeightValue(track_info) ==
    LET package_weights ==
            Get(Get(Get(track_info, "packageDetails", EmptyDict),
                    "weightAndDimensions", EmptyDict), "weight", << >>)
    IN IF package_weights # << >>
       THEN IF Get(package_weights[1], "value", NA) \in FloatStrings
            THEN Float(Tenths(Get(package_weights[1], "value", NA)))
            ELSE PyStr(NA)
       ELSE PyStr(NA)

\* (variant: followed by fillna(0))
to_numericFilled(v) == IF v.type = "float" THEN v ELSE Float(0)
\* pd.to_numeric(v, errors='coerce'), line 525
to_numeric(v) == IF v.type = "float" THEN v ELSE NaN

\* lines 500-518, with line 525 applied to the last column
ProcessedRow(tn, track_info) ==
    [Tracking_Number |-> tn,
     Status |-> Get(Get(track_info, "latestStatusDetail", EmptyDict), "statusByLocale", "UNKNOWN"),
     Shipper_City |-> Get(Get(Get(track_info, "shipperInformation", EmptyDict),
                              "address", EmptyDict), "city", NA),
     Recipient_City |-> Get(Get(Get(track_info, "recipientInformation", EmptyDict),
                                "address", EmptyDict), "city", NA),
     Weight_Value |-> WeightValue(track_info),
     Weight_Value_LB |-> to_numeric(WeightValue(track_info))]

\* lines 496-499: the entry has output.completeTrackResults[0].trackResults[0]
Processable(entry) ==
    LET complete_results ==
            Get(Get(entry.raw_json, "output", EmptyDict), "completeTrackResults", << >>)
    IN /\ complete_results # << >>
       /\ Get(complete_results[1], "trackResults", << >>) # << >>

\* lines 489-518: the loop appends a row for the entries it can process
ProcessedData(all_raw_tracking_data) ==
    LET able == SelectSeq(all_raw_tracking_data, Processable)
    IN [i \in 1..Len(able) |->
          ProcessedRow(able[i].tracking_number,
                       able[i].raw_json.output.completeTrackResults[1].trackResults[1])]

\* lines 531-533: the three boolean masks
delivered_mask(row) == row.Status = "Delivered"
in_transit_mask(row) == row.Status # "Delivered" /\ ~StrContains(row.Status, "exception")
exception_mask(row) == StrContains(row.Status, "exception")

\* (variant: without the filter of line 550 / 571)
CityCountsKeepEmpty(df, column) ==
    LET valid == SelectSeq(df, LAMBDA row : row[column] # NA)
        cities == { valid[i][column] : i \in 1..Len(valid) }
    IN [c \in cities |-> Cardinality({ i \in 1..Len(valid) : valid[i][column] = c })]
\* df[column].value_counts() after the two filters of lines 549-550 / 570-571;
\* the empty table shows st.info instead of a chart
CityCounts(df, column) ==
    LET valid == SelectSeq(df, LAMBDA row : row[column] # NA /\ row[column] # "")
        cities == { valid[i][column] : i \in 1..Len(valid) }
    IN [c \in cities |-> Cardinality({ i \in 1..Len(valid) : valid[i][column] = c })]

\* lines 479-480: every batch, newest first
AllUploads ==
    LET references == get_all_references
        extended[i \in 0..Len(references)] ==
            IF i = 0 THEN << >>
            ELSE extended[i - 1] \o get_tracking_json(references[i].reference_id)
    IN extended[Len(references)]

\* lines 485-602 for the data of the selection
Dashboard(selected_analytics_ref_id, all_raw_tracking_data) ==
    IF all_raw_tracking_data = << >>
    THEN [shown |-> "No tracking data available",
          selected_analytics_ref_id |-> selected_analytics_ref_id,
          all_raw_tracking_data |-> all_raw_tracking_data]
    ELSE LET df_analytics == ProcessedData(all_raw_tracking_data) IN
         IF df_analytics = << >>
         THEN [shown |-> "No detailed tracking data",
               selected_analytics_ref_id |-> selected_analytics_ref_id,
               all_raw_tracking_data |-> all_raw_tracking_data]
         ELSE [shown |-> "dashboard",
               selected_analytics_ref_id |-> selected_analytics_ref_id,
               all_raw_tracking_data |-> all_raw_tracking_data,
               df_analytics |-> df_analytics,
               total_shipments |-> Len(df_analytics),
               delivered_shipments |-> Len(SelectSeq(df_analytics, delivered_mask)),
               in_transit_shipments |-> Len(SelectSeq(df_analytics, in_transit_mask)),
               exception_shipments |-> Len(SelectSeq(df_analytics, exception_mask)),
               shipper_city_counts |-> CityCounts(df_analytics, "Shipper_City"),
               recipient_city_counts |-> CityCounts(df_analytics, "Recipient_City"),
               valid_weights |-> SelectSeq(df_analytics,
                                           LAMBDA row : row.Weight_Value_LB # NaN)]

\* one run of the analytics page, lines 456-602
Analyze ==
    /\ IF get_all_references = << >>
       THEN analytics' = [shown |-> "No bulk uploads found"]
       ELSE \E sel \in {"all_uploads"} \cup
                       { get_all_references[r].reference_id : r \in 1..Len(get_all_references) } :
               analytics' = Dashboard(sel, IF sel = "all_uploads" THEN AllUploads
                                           ELSE get_tracking_json(sel))
    /\ UNCHANGED << storeVars, bulkVars, viewVars, single_page, navVars >>

(***************************************************************************)
(* The responses the analytics page reads: status, cities and weight list  *)
(* present, empty, absent or not what the page expects.                    *)
(***************************************************************************)
Shipment(st, shipper, recipient, weights) ==
    [latestStatusDetail |-> [statusByLocale |-> st],
     shipperInformation |-> [address |-> [city |-> shipper]],
     recipientInformation |-> [address |-> [city |-> recipient]],
     packageDetails |-> [weightAndDimensions |-> [weight |-> weights]]]

AnalysedRaws ==
    { RawNoOutput,
      RawNoTrackResults("A"),
      RawWith(EmptyDict),
      RawWith(Shipment("Delivered", "MEMPHIS", "DALLAS", << [value |-> "12.5", unit |-> "LB"] >>)),
      RawWith(Shipment("delivered", "", NA, << >>)),
      RawWith(Shipment("Delivery exception", "DALLAS", "MEMPHIS", << [value |-> NA] >>)),
      RawWith(Shipment("SHIPMENT EXCEPTION", "MEMPHIS", "", << [unit |-> "LB"] >>)),
      RawWith(Shipment("In transit", NA, "MEMPHIS",
                       << [value |-> "3", unit |-> "LB"], [value |-> "12.5", unit |-> "KG"] >>)),
      RawWith([latestStatusDetail |-> [statusByLocale |-> "In transit"],
               shipperInformation |-> EmptyDict,
               packageDetails |-> [weightAndDimensions |-> EmptyDict]]) }

\* save_upload_with_json run to its end, for a record the analytics page will read
StoreAnalysed ==
    /\ Len(tracking_datanew) < MaxRows
    /\ \E ref \in RefIds, raw \in AnalysedRaws :
          /\ references_data' = UpsertReference(references_data, ref, now + 1)
          /\ tracking_datanew' = InsertTracking(tracking_datanew, ref, "A", raw)
          /\ writer' = Append(writer, "u1")
    /\ now' = now + 1
    /\ UNCHANGED << bulkVars, viewVars, pageVars >>

AnalyticsNext == StoreAnalysed \/ Analyze

SpecAnalytics == Init /\ [][AnalyticsNext]_vars

(***************************************************************************)
(* app3.py, single page                                                    *)
(***************************************************************************)
\* pd.to_datetime(v) as the single page uses it: the UTC offset is kept
to_datetime_aware(v) ==
    IF v = "2024-01-05T00:00:00-05:00"
    THEN [type |-> "Timestamp", t |-> Day(v), tz |-> "-05:00"]
    ELSE to_datetime(v)

\* lines 185-189 and 210-214: the Timestamp, or the string itself when parsing raises
ParsedOrRawAware(v) ==
    IF to_datetime_aware(v).type = "raises" THEN PyStr(v) ELSE to_datetime_aware(v)

\* lines 179-190: the first entry of dateAndTimes tagged ESTIMATED_DELIVERY
SingleEstimatedDelivery(track_info) ==
    LET date_times_info == Get(track_info, "dateAndTimes", << >>)
        hits == { i \in 1..Len(date_times_info) :
                    Get(date_times_info[i], "type", "") = "ESTIMATED_DELIVERY" }
    IN IF hits = {} THEN PyStr(NA)
       ELSE ParsedOrRawAware(Get(date_times_info[CHOOSE i \in hits : \A j \in hits : i <= j],
                                 "dateTime", NA))

\* lines 192-197: the type of the first entry of availableImages that has one
SingleProofOfDelivery(track_info) ==
    LET pod_list == Get(track_info, "availableImages", << >>)
        hits == { i \in 1..Len(pod_list) : Get(pod_list[i], "type", "") # "" }
    IN IF hits = {} THEN NA
       ELSE pod_list[CHOOSE i \in hits : \A j \in hits : i <= j].type

\* lines 203-228: one row of the history table per scan event
DisplayEvents(scan_events) ==
    [i \in 1..Len(scan_events) |->
        [Event_Description |-> Get(scan_events[i], "eventDescription", NA),
         Event_Date |-> ParsedOrRawAware(Get(scan_events[i], "date", NA)),
         Exception_Description |-> Get(scan_events[i], "exceptionDescription", NA),
         Location |-> ScanLocation(scan_events[i])]]

\* lines 232-235: sort_values(by='Date', ascending=False) inside try/except;
\* comparing a Timestamp that has an offset with one that has none raises too
MixedOffsets(rows) ==
    /\ \E i \in 1..Len(rows) : "tz" \in DOMAIN rows[i].Event_Date
    /\ \E i \in 1..Len(rows) :
          rows[i].Event_Date.type = "Timestamp" /\ "tz" \notin DOMAIN rows[i].Event_Date

SortedHistory(rows) == IF MixedOffsets(rows) THEN { rows } ELSE Sorted(rows)

\* lines 162-241: what the page shows for a response
SingleSummaries(response) ==
    LET complete_results == Get(Get(response, "output", EmptyDict), "completeTrackResults", << >>)
    IN IF complete_results = << >>
       THEN { [shown |-> "No tracking results found.", result |-> response] }
       ELSE LET track_results == Get(complete_results[1], "trackResults", << >>) IN
            IF track_results = << >>
            THEN { [shown |-> "No track results found.", result |-> response] }
            ELSE LET track_info == track_results[1] IN
                 { [shown |-> "Tracking Summary",
                    result |-> response,
                    Tracking_Number |-> Get(complete_results[1], "trackingNumber", NA),
                    Current_Status |->
                        Get(Get(track_info, "latestStatusDetail", EmptyDict), "statusByLocale", NA),
                    Estimated_Delivery |-> SingleEstimatedDelivery(track_info),
                    Proof_of_Delivery |-> SingleProofOfDelivery(track_info),
                    display_events |-> df] :
                   df \in SortedHistory(DisplayEvents(Get(track_info, "scanEvents", << >>))) }

\* the responses FedEx gives to the single page
TrackedRaws ==
    { RawNoOutput,
      RawNoTrackResults("A"),
      RawWith(EmptyDict),
      RawFull("A", "Delivered"),
      RawWith(RichTrackInfo),
      RawWith([latestStatusDetail |-> [statusByLocale |-> "In transit"],
               availableImages |-> << EmptyDict, [type |-> "PICTURE_PROOF_OF_DELIVERY"] >>,
               scanEvents |-> << [eventDescription |-> "e1", date |-> "2024-01-02"],
                                 [eventDescription |-> "e2",
                                  date |-> "2024-01-05T00:00:00-05:00"] >>]) }

\* the button of line 151: lines 152-246 (status_code 0: the request raised)
TrackSingleOf(raws) ==
    /\ \E token_status \in {200, 401, 0}, status_code \in {200, 404, 0},
          body \in raws \cup {EmptyDict} :
          /\ status_code # 200 => body = EmptyDict
          /\ token_status # 200 => (status_code = 0 /\ body = EmptyDict)
          /\ IF token_status = 0
             THEN single_page' = [shown |-> "exception"]
             ELSE IF NoToken(get_access_token(token_status))
             THEN single_page' = [shown |-> "Failed to authenticate"]
             ELSE IF status_code = 0
             THEN single_page' = [shown |-> "exception"]
             ELSE IF ~Truthy(track_shipment(status_code, body))
             THEN single_page' = [shown |-> "no result"]
             ELSE single_page' \in SingleSummaries(track_shipment(status_code, body))
    /\ UNCHANGED << storeVars, bulkVars, viewVars, analytics, navVars >>

TrackSingle == TrackSingleOf(TrackedRaws)

(***************************************************************************)
(* The three pages over one response: the single page gets it from FedEx,  *)
(* the results page and the analytics page read it from a batch of one     *)
(* record.                                                                 *)
(***************************************************************************)
StoreTracked == StoreOne(TrackedRaws)

PagesNext == TrackSingle \/ StoreTracked \/ FetchResults \/ Analyze

SpecPages == Init /\ [][PagesNext]_vars

(***************************************************************************)
(* The single page and the results page over responses whose               *)
(* availableImages list varies.                                            *)
(***************************************************************************)
StoreProved == StoreOne(ProofRaws)

TrackProved == TrackSingleOf(ProofRaws)

ProofNext == StoreProved \/ TrackProved \/ FetchResults

SpecProof == Init /\ [][ProofNext]_vars

(***************************************************************************)
(* app3.py, login and navigation.  Every interaction of a session with a   *)
(* widget makes Streamlit run the script from the top; st.rerun() stops    *)
(* the run at once and starts another.                                     *)
(***************************************************************************)
Pages == { "single", "bulk", "results", "analytics" }

\* what is typed into the two fields of the login page
Usernames == { "admin", "guest" }
Passwords == { "admin", "" }

\* lines 34-38
Initialized(ss) ==
    [logged_in |-> Get(ss, "logged_in", FALSE),
     current_page |-> Get(ss, "current_page", "single")]

\* lines 147, 248, 291, 456, 603: the branch of main_app taken for current_page
PageLogic(current_page) ==
    IF current_page \in Pages THEN current_page ELSE "unexpected page state"

\* one script run: the function line 608 called, the page logic it reached
\* ("none" when it reached none) and logged_in at that point
Run(fn, page_logic, logged_in) ==
    [fn |-> fn, page_logic |-> page_logic, logged_in |-> logged_in]

\* lines 608-611 for a run in which no button of the sidebar or of the login
\* page is pressed
EntryRun(ss) ==
    IF ss.logged_in
    THEN Run("main_app", PageLogic(ss.current_page), ss.logged_in)
    ELSE Run("login_page", "none", ss.logged_in)

Shown(p, widget, runs) ==
    script_runs' = [script_runs EXCEPT ![p] = [widget |-> widget, runs |-> runs]]

\* the session opens the application: the first run of the script
Open(p) ==
    /\ session_state[p] = EmptyDict
    /\ session_state' = [session_state EXCEPT ![p] = Initialized(session_state[p])]
    /\ Shown(p, [button |-> "none"], << EntryRun(Initialized(session_state[p])) >>)
    /\ UNCHANGED << storeVars, bulkVars, viewVars, analytics, single_page >>

\* line 110
Accepted(username, password) == username = "admin" /\ password = "admin"

\* the Login button, lines 109-114
Login(p) ==
    /\ session_state[p] # EmptyDict
    /\ ~session_state[p].logged_in
    /\ \E username \in Usernames, password \in Passwords :
          IF Accepted(username, password)
          THEN LET ss == [session_state[p] EXCEPT !.logged_in = TRUE] IN
               /\ session_state' = [session_state EXCEPT ![p] = ss]
               /\ Shown(p, [button |-> "Login", username |-> username, password |-> password],
                        << Run("login_page", "none", FALSE), EntryRun(ss) >>)
          ELSE /\ UNCHANGED session_state
               /\ Shown(p, [button |-> "Login", username |-> username, password |-> password],
                        << Run("login_page", "none", FALSE) >>)
    /\ UNCHANGED << storeVars, bulkVars, viewVars, analytics, single_page >>

\* a navigation button of the sidebar, lines 127-137, then the page logic
Navigate(p) ==
    /\ session_state[p] # EmptyDict
    /\ session_state[p].logged_in
    /\ \E page \in Pages :
          LET ss == [session_state[p] EXCEPT !.current_page = page] IN
          /\ session_state' = [session_state EXCEPT ![p] = ss]
          /\ Shown(p, [button |-> "nav", page |-> page],
                   << Run("main_app", PageLogic(ss.current_page), ss.logged_in) >>)
    /\ UNCHANGED << storeVars, bulkVars, viewVars, analytics, single_page >>

\* (variant: line 144 missing, the run goes on to the page logic)
LogoutNoRerun(p) ==
    /\ session_state[p] # EmptyDict
    /\ session_state[p].logged_in
    /\ LET ss == [logged_in |-> FALSE, current_page |-> "single"] IN
       /\ session_state' = [session_state EXCEPT ![p] = ss]
       /\ Shown(p, [button |-> "Logout"],
                << Run("main_app", PageLogic(ss.current_page), ss.logged_in) >>)
    /\ UNCHANGED << storeVars, bulkVars, viewVars, analytics, single_page >>
\* the Logout button, lines 141-144: st.rerun() ends the run before the page logic
Logout(p) ==
    /\ session_state[p] # EmptyDict
    /\ session_state[p].logged_in
    /\ LET ss == [logged_in |-> FALSE, current_page |-> "single"] IN
       /\ session_state' = [session_state EXCEPT ![p] = ss]
       /\ Shown(p, [button |-> "Logout"],
                << Run("main_app", "none", ss.logged_in), EntryRun(ss) >>)
    /\ UNCHANGED << storeVars, bulkVars, viewVars, analytics, single_page >>

\* any other widget of the page on display (a text field, a page's own button)
Interact(p) ==
    /\ session_state[p] # EmptyDict
    /\ Shown(p, [button |-> "other"], << EntryRun(session_state[p]) >>)
    /\ UNCHANGED << storeVars, bulkVars, viewVars, analytics, single_page, session_state >>

NavNext == \E p \in Sessions : Open(p) \/ Login(p) \/ Navigate(p) \/ Logout(p) \/ Interact(p)

SpecNav == Init /\ [][NavNext]_vars

(***************************************************************************)
(* What a run did, read from its log and from the tables                   *)
(***************************************************************************)
CallsTo(p, fn) == SelectSeq(calls[p], LAMBDA c : c.fn = fn)

\* the tracking request for an identifier came back without a usable result
FetchFailed(c) == c.status_code # 200 \/ c.body = EmptyDict

\* positions of the file whose fetch failed
FailedPositions(p) ==
    { k \in 1..Len(CallsTo(p, "track_shipment")) : FetchFailed(CallsTo(p, "track_shipment")[k]) }

\* the rows of tracking_datanew a session inserted, in order
WrittenBy(p) ==
    AtPositions(tracking_datanew, { i \in 1..Len(tracking_datanew) : writer[i] = p })

NumbersOf(rows) == [i \in 1..Len(rows) |-> rows[i].tracking_number]

\* the identifiers the page reported as failed (st.warning, line 281)
ReportedFailures(p) ==
    LET w == SelectSeq(messages[p], LAMBDA m : m.kind = "fetch_failed")
    IN [i \in 1..Len(w) |-> w[i].tn]

\* the count the page shows at the end (line 285)
ReportedCount(p) ==
    LET w == SelectSeq(messages[p], LAMBDA m : m.kind = "success")
    IN w[1].saved

SaveFailures(p) == SelectSeq(calls[p], LAMBDA c : c.fn \in {"upsert", "insert"} /\ ~c.ok)

AuthSucceeded(p) ==
    /\ Len(calls[p]) > 0
    /\ calls[p][1].fn = "get_access_token"
    /\ calls[p][1].status_code = 200

AuthFailed(p) ==
    /\ Len(calls[p]) > 0
    /\ calls[p][1].fn = "get_access_token"
    /\ calls[p][1].status_code # 200

OthersUse(p, ref) == \E i \in 1..Len(tracking_datanew) :
                        tracking_datanew[i].reference_id = ref /\ writer[i] # p

(***************************************************************************)
(* C1: a finished bulk run in which authentication succeeded, the fetch    *)
(* failed for the positions F and every save went through reports          *)
(* success_count = (number of identifiers) - |F|, reports exactly the      *)
(* identifiers at F as failures, and has put into the store one record for *)
(* each identifier not in F, all under the run's reference_id; unless      *)
(* another run shares the reference, these are all the records under it.   *)
(***************************************************************************)
C1_BulkPartialFailure ==
    \A p \in Sessions :
        (status[p] = "success" /\ SaveFailures(p) = << >>) =>
            LET tns == tracking_numbers[p]
                F   == FailedPositions(p)
                ok  == (1..Len(tns)) \ F
            IN /\ success_count[p] = Len(tns) - Cardinality(F)
               /\ ReportedCount(p) = Len(tns) - Cardinality(F)
               /\ ReportedFailures(p) = AtPositions(tns, F)
               /\ NumbersOf(WrittenBy(p)) = AtPositions(tns, ok)
               /\ \A i \in 1..Len(WrittenBy(p)) :
                      WrittenBy(p)[i].reference_id = reference_id[p]
               /\ ~OthersUse(p, reference_id[p]) =>
                      get_tracking_json(reference_id[p]) = WrittenBy(p)

\* a run over two identifiers, one fetched and saved, the other failed
C1_Witness ==
    /\ status["u1"] = "success"
    /\ SaveFailures("u1") = << >>
    /\ Len(tracking_numbers["u1"]) = 2
    /\ FailedPositions("u1") = {1}
    /\ Len(WrittenBy("u1")) = 1

(***************************************************************************)
(* C2: when authentication fails, the run ends at once: the token request  *)
(* is the only call the run ever makes (no tracking fetch, no upsert, no   *)
(* insert), it has written no tracking record, and no batch row exists for *)
(* its reference unless another run uses the same reference.               *)
(***************************************************************************)
C2_AuthFailureAborts ==
    \A p \in Sessions :
        AuthFailed(p) =>
            /\ pc[p] = "done"
            /\ status[p] \in {"aborted", "error"}
            /\ Len(calls[p]) = 1
            /\ WrittenBy(p) = << >>
            /\ (\A q \in Sessions \ {p} : reference_id[q] # reference_id[p]) =>
                   RefIndex(references_data, reference_id[p]) = {}

\* the token request of a run with a non-empty file was rejected
C2_Witness ==
    /\ AuthFailed("u1")
    /\ calls["u1"][1].status_code = 401
    /\ Len(tracking_numbers["u1"]) = 2
    /\ status["u1"] = "aborted"

(***************************************************************************)
(* C3: once authentication has succeeded, a finished run has made exactly  *)
(* one token request and exactly one tracking request per identifier, in   *)
(* input order, whatever way any of the fetches failed.                    *)
(***************************************************************************)
C3_EveryIdentifierFetched ==
    \A p \in Sessions :
        (pc[p] = "done" /\ AuthSucceeded(p)) =>
            LET t == CallsTo(p, "track_shipment") IN
            /\ Len(CallsTo(p, "get_access_token")) = 1
            /\ [i \in 1..Len(t) |-> t[i].tn] = tracking_numbers[p]

(***************************************************************************)
(* C4: at the end of a run, success_count equals the number of records the *)
(* run has persisted: an identifier whose save failed is not counted.      *)
(***************************************************************************)
C4_CountEqualsPersisted ==
    \A p \in Sessions :
        status[p] = "success" => success_count[p] = Len(WrittenBy(p))

(***************************************************************************)
(* C5: a step in which a save of a session fails (upsert or insert raised) *)
(* leaves both tables as they were, and the run goes on with the next      *)
(* identifier, or finishes normally when there is none.                    *)
(***************************************************************************)
SaveFailsIn(p) ==
    /\ Len(calls'[p]) = Len(calls[p]) + 1
    /\ LET c == calls'[p][Len(calls'[p])] IN c.fn \in {"upsert", "insert"} /\ ~c.ok

C5_Step ==
    \A p \in Sessions :
        SaveFailsIn(p) =>
            /\ tracking_datanew' = tracking_datanew
            /\ references_data' = references_data
            /\ idx'[p] = idx[p] + 1
            /\ IF idx[p] < Len(tracking_numbers[p])
               THEN pc'[p] = "fetch" /\ status'[p] = "none"
               ELSE pc'[p] = "done" /\ status'[p] = "success"

\* C5: every step in which a save fails keeps both tables and lets the run go on
C5_FailedSaveNoRollback == [][C5_Step]_vars

\* a record was saved, the save of the next identifier failed, the record is
\* still there and the run has finished normally
C5_Witness ==
    /\ Len(tracking_numbers["u1"]) = 2
    /\ Len(WrittenBy("u1")) = 1
    /\ Len(SaveFailures("u1")) = 1
    /\ calls["u1"][Len(calls["u1"])].fn \in {"upsert", "insert"}
    /\ ~calls["u1"][Len(calls["u1"])].ok
    /\ status["u1"] = "success"

(***************************************************************************)
(* C6: in every state of the two tables, whatever the interleaving of the  *)
(* sessions' statements, each tracking record's reference_id is the        *)
(* reference_id of exactly one batch row; so whatever a reader gets from   *)
(* get_tracking_json belongs to a batch that get_all_references lists.     *)
(***************************************************************************)
C6_RecordsReferenceABatch ==
    /\ \A i \in 1..Len(tracking_datanew) :
          Cardinality(RefIndex(references_data, tracking_datanew[i].reference_id)) = 1
    /\ \A ref \in RefIds :
          get_tracking_json(ref) # << >> =>
              Cardinality(RefIndex(get_all_references, ref)) = 1

\* both sessions have records in the store, and one of them is between its
\* upsert and its insert
C6_Witness ==
    /\ WrittenBy("u1") # << >>
    /\ WrittenBy("u2") # << >>
    /\ \E p \in Sessions : pc[p] = "insert"

(***************************************************************************)
(* C7: however many upserts were made with a reference_id, the store holds *)
(* at most one batch row with it, and exactly one once an upsert with it   *)
(* has succeeded.                                                          *)
(***************************************************************************)
UpsertsDone(ref) ==
    LET n(p) == Len(SelectSeq(calls[p],
                    LAMBDA c : c.fn = "upsert" /\ c.ok /\ c.reference_id = ref))
    IN n("u1") + n("u2")

\* C7: at most one batch row per reference_id, exactly one after a successful upsert
C7_UpsertIdempotent ==
    \A ref \in RefIds :
        /\ Cardinality(RefIndex(references_data, ref)) <= 1
        /\ UpsertsDone(ref) >= 1 => Cardinality(RefIndex(references_data, ref)) = 1

\* a reference upserted at least twice
C7_Witness == \E ref \in RefIds : UpsertsDone(ref) >= 2

(***************************************************************************)
(* C8: once a batch row exists for a reference_id, no step changes its     *)
(* upload_time.                                                            *)
(***************************************************************************)
UploadTime(table, ref) == table[CHOOSE i \in RefIndex(table, ref) : TRUE].upload_time

C8_Step ==
    \A ref \in RefIds :
        RefIndex(references_data, ref) # {} =>
            /\ RefIndex(references_data', ref) # {}
            /\ UploadTime(references_data', ref) = UploadTime(references_data, ref)

\* C8: no step changes the upload_time of an existing batch row
C8_BatchImmutable == [][C8_Step]_vars

(***************************************************************************)
(* C9: a save under a reference_id that is already in the store fails only *)
(* on a fault of the store, never because the reference exists; no step    *)
(* removes or changes a record stored under a reference, and a successful  *)
(* insert adds its record at the end of the records of that reference.     *)
(***************************************************************************)
IsPrefix(s, t) == Len(s) <= Len(t) /\ SubSeq(t, 1, Len(s)) = s

C9_Step ==
    /\ \A ref \in RefIds :
          IsPrefix(get_tracking_json(ref), TrackingOf(tracking_datanew', ref))
    /\ \A p \in Sessions :
          Len(calls'[p]) = Len(calls[p]) + 1 =>
              LET c == calls'[p][Len(calls'[p])] IN
              /\ c.fn = "upsert" => (c.ok <=> ~c.fault)
              /\ (c.fn = "insert" /\ c.ok) =>
                    LET before == get_tracking_json(c.reference_id)
                        after  == TrackingOf(tracking_datanew', c.reference_id)
                    IN /\ Len(after) = Len(before) + 1
                       /\ after[Len(after)].tracking_number = c.tn
                       /\ after[Len(after)].reference_id = c.reference_id

\* C9: every step keeps the records of each reference, an upsert fails only on a
\* store fault, and a successful insert appends to the records of its reference
C9_CollisionAppends == [][C9_Step]_vars

\* two runs generated the same reference, and the batch holds the records of both
C9_Witness ==
    /\ reference_id["u1"] = reference_id["u2"]
    /\ WrittenBy("u1") # << >>
    /\ WrittenBy("u2") # << >>
    /\ Len(get_tracking_json(reference_id["u1"])) = Len(WrittenBy("u1")) + Len(WrittenBy("u2"))


(***************************************************************************)
(* The results page                                                        *)
(***************************************************************************)
HasCompleteResults(raw) ==
    /\ "output" \in DOMAIN raw
    /\ "completeTrackResults" \in DOMAIN raw.output
    /\ raw.output.completeTrackResults # << >>

HasTrackResults(raw) ==
    /\ HasCompleteResults(raw)
    /\ "trackResults" \in DOMAIN raw.output.completeTrackResults[1]
    /\ raw.output.completeTrackResults[1].trackResults # << >>

\* the number FedEx echoed in completeTrackResults[0], when there is one
HasEchoedNumber(raw) ==
    /\ HasCompleteResults(raw)
    /\ "trackingNumber" \in DOMAIN raw.output.completeTrackResults[1]

AllSentinel(row) ==
    /\ row.Status = "N/A"
    /\ row.Estimated_Delivery = PyStr("N/A")
    /\ row.Proof_of_Delivery = "N/A"
    /\ row.Latest_Event = "N/A"
    /\ row.Event_Date = PyStr("N/A")
    /\ row.Location = "N/A"

\* the stored entries the table on display was built from (records are only appended)
Displayed ==
    IF selected_ref_id = "none" THEN << >>
    ELSE SubSeq(get_tracking_json(selected_ref_id), 1, Len(all_results))

\* the rows of the table, in some order, are the rows of the displayed
\* entries, and each pair satisfies Fits
RowsFit(Fits(_, _)) ==
    LET n == Len(all_results) IN
    /\ Len(Displayed) = n
    /\ \E f \in [1..n -> 1..n] :
          /\ \A i, j \in 1..n : i # j => f[i] # f[j]
          /\ \A i \in 1..n : Fits(all_results[f[i]], Displayed[i])

(***************************************************************************)
(* C10 as claimed: a stored response without output, completeTrackResults  *)
(* or trackResults gives a row whose fields are all the sentinel and whose *)
(* tracking number is the stored tracking_number of the record.            *)
(***************************************************************************)
C10_FitsFallback(row, entry) ==
    ~HasTrackResults(entry.raw_json) =>
        AllSentinel(row) /\ row.Tracking_Number = entry.tracking_number

C10_FitsEchoed(row, entry) ==
    ~HasTrackResults(entry.raw_json) =>
        /\ AllSentinel(row)
        /\ row.Tracking_Number =
              IF HasEchoedNumber(entry.raw_json)
              THEN entry.raw_json.output.completeTrackResults[1].trackingNumber
              ELSE entry.tracking_number

TrackInfoOf(raw) == raw.output.completeTrackResults[1].trackResults[1]

ScanEventsOf(entry) ==
    IF HasTrackResults(entry.raw_json)
    THEN Get(TrackInfoOf(entry.raw_json), "scanEvents", << >>)
    ELSE << >>

\* the event has a date that parses
Parsable(ev) == "date" \in DOMAIN ev /\ ev.date \in DateStrings

ParsableIn(evs) == { i \in 1..Len(evs) : Parsable(evs[i]) }

\* the events with the largest parsed date among those that parse
MaximalIn(evs) ==
    { i \in ParsableIn(evs) : \A j \in ParsableIn(evs) : Day(evs[i].date) >= Day(evs[j].date) }

\* the row shows event i of the list as the latest event
Shows(row, evs, i) ==
    /\ row.Latest_Event = evs[i].eventDescription
    /\ \A j \in 1..Len(evs) : evs[j].eventDescription = evs[i].eventDescription => j = i

(***************************************************************************)
(* C11: for a response with a non-empty scanEvents list, the event shown   *)
(* as the latest is an event of the list and, when some event has a date   *)
(* that parses, it is one of those with the largest parsed date: an event  *)
(* whose date is missing or does not parse is not shown then, wherever it  *)
(* stands in the list.                                                     *)
(***************************************************************************)
C11_Fits(row, entry) ==
    LET evs == ScanEventsOf(entry) IN
    evs # << >> =>
        \E i \in 1..Len(evs) :
            /\ Shows(row, evs, i)
            /\ ParsableIn(evs) # {} => i \in MaximalIn(evs)

\* C11: the latest event shown has the largest parsed date among the events whose date parses
C11_LatestIsMaximalParsable == RowsFit(C11_Fits)

(***************************************************************************)
(* The analytics page                                                      *)
(***************************************************************************)
\* the statuses of the responses that contain "exception" in some case
ExceptionStatuses == { "Delivery exception", "SHIPMENT EXCEPTION" }

RowsWhere(df, P(_)) == { i \in 1..Len(df) : P(df[i]) }

(***************************************************************************)
(* C12: on the dashboard, delivered counts the rows whose status is        *)
(* exactly "Delivered", exception the rows whose status contains           *)
(* "exception" in any case, in_transit every other row; no row is in two   *)
(* buckets and the three counts add up to the total.                       *)
(***************************************************************************)
C12_BucketsPartition ==
    analytics.shown = "dashboard" =>
        LET df == analytics.df_analytics
            D == RowsWhere(df, LAMBDA row : row.Status = "Delivered")
            E == RowsWhere(df, LAMBDA row : row.Status \in ExceptionStatuses)
            T == (1..Len(df)) \ (D \cup E)
        IN /\ D \cap E = {}
           /\ analytics.delivered_shipments = Cardinality(D)
           /\ analytics.exception_shipments = Cardinality(E)
           /\ analytics.in_transit_shipments = Cardinality(T)
           /\ analytics.delivered_shipments + analytics.exception_shipments
                 + analytics.in_transit_shipments = analytics.total_shipments

\* a dashboard over a "Delivered" and a "SHIPMENT EXCEPTION" record
C12_Witness ==
    /\ analytics.shown = "dashboard"
    /\ analytics.total_shipments = 2
    /\ analytics.delivered_shipments = 1
    /\ analytics.exception_shipments = 1
    /\ \E i \in 1..2 : analytics.df_analytics[i].Status = "SHIPMENT EXCEPTION"

(***************************************************************************)
(* C13: whenever the page has read records from the store, it shows the    *)
(* dashboard, the total is the number of records read, and so is the sum   *)
(* of the three buckets: a record whose response has no                    *)
(* completeTrackResults or trackResults is counted too.                    *)
(***************************************************************************)
C13_TotalCountsEveryRecord ==
    ("all_raw_tracking_data" \in DOMAIN analytics /\ analytics.all_raw_tracking_data # << >>) =>
        /\ analytics.shown = "dashboard"
        /\ analytics.total_shipments = Len(analytics.all_raw_tracking_data)
        /\ analytics.delivered_shipments + analytics.exception_shipments
              + analytics.in_transit_shipments = Len(analytics.all_raw_tracking_data)

\* the city of a party ("shipperInformation", "recipientInformation") in the
\* stored response of a record, the sentinel when any level down to it is absent
CityOfRecord(entry, party) ==
    IF ~HasTrackResults(entry.raw_json) THEN "N/A"
    ELSE LET track_info == TrackInfoOf(entry.raw_json) IN
         IF /\ party \in DOMAIN track_info
            /\ "address" \in DOMAIN track_info[party]
            /\ "city" \in DOMAIN track_info[party].address
         THEN track_info[party].address.city
         ELSE "N/A"

\* the grouping on display: none is computed when the page stops before the
\* dashboard or when no row passes the filters
Grouping(counts) == IF analytics.shown = "dashboard" THEN analytics[counts] ELSE EmptyDict

C14_GroupingFits(counts, party) ==
    LET records == analytics.all_raw_tracking_data
        with(c) == { i \in 1..Len(records) : CityOfRecord(records[i], party) = c }
    IN /\ "" \notin DOMAIN Grouping(counts)
       /\ "N/A" \notin DOMAIN Grouping(counts)
       /\ \A c \in { "MEMPHIS", "DALLAS" } :
             IF with(c) = {} THEN c \notin DOMAIN Grouping(counts)
             ELSE c \in DOMAIN Grouping(counts) /\ Grouping(counts)[c] = Cardinality(with(c))
       /\ DOMAIN Grouping(counts) \subseteq { "MEMPHIS", "DALLAS" }
       /\ (\A i \in 1..Len(records) : CityOfRecord(records[i], party) = "N/A") =>
             Grouping(counts) = EmptyDict

(***************************************************************************)
(* C14: after every run of the page that read records, the grouping by     *)
(* shipper city and the grouping by recipient city have neither "" nor the *)
(* sentinel as a key, give for every other city the number of records with *)
(* that city, and are empty when every record's city is the sentinel (the  *)
(* run ends normally).                                                     *)
(***************************************************************************)
C14_CityGroupings ==
    "all_raw_tracking_data" \in DOMAIN analytics =>
        /\ C14_GroupingFits("shipper_city_counts", "shipperInformation")
        /\ C14_GroupingFits("recipient_city_counts", "recipientInformation")

\* a dashboard over a record with shipper city "" and a record with shipper
\* city MEMPHIS, whose recipient cities are the sentinel and DALLAS
C14_Witness ==
    /\ analytics.shown = "dashboard"
    /\ \E i, j \in 1..Len(analytics.df_analytics) :
          /\ analytics.df_analytics[i].Shipper_City = ""
          /\ analytics.df_analytics[i].Recipient_City = "N/A"
          /\ analytics.df_analytics[j].Shipper_City = "MEMPHIS"
    /\ DOMAIN analytics.shipper_city_counts = { "MEMPHIS" }
    /\ DOMAIN analytics.recipient_city_counts = { "DALLAS" }

\* the weight the stored response of a record gives: the 'value' of the first
\* entry of packageDetails.weightAndDimensions.weight as a number of tenths
WeightList(entry) ==
    LET track_info == TrackInfoOf(entry.raw_json) IN
    IF /\ "packageDetails" \in DOMAIN track_info
       /\ "weightAndDimensions" \in DOMAIN track_info.packageDetails
       /\ "weight" \in DOMAIN track_info.packageDetails.weightAndDimensions
    THEN track_info.packageDetails.weightAndDimensions.weight
    ELSE << >>

HasWeight(entry) ==
    /\ WeightList(entry) # << >>
    /\ "value" \in DOMAIN WeightList(entry)[1]
    /\ WeightList(entry)[1].value \in { "12.5", "3" }

ExpectedWeight(entry) ==
    IF ~HasWeight(entry) THEN PyStr("N/A")
    ELSE IF WeightList(entry)[1].value = "12.5"
         THEN [type |-> "float", tenths |-> 125]
         ELSE [type |-> "float", tenths |-> 30]

(***************************************************************************)
(* C15: for the records of a run whose response has track results, the     *)
(* weight of a row is the first entry of the weight list as a number, and  *)
(* the sentinel when the list is empty or absent or its value is not a     *)
(* number; the run reaches the dashboard, every such record is a row       *)
(* counted in the totals, and the histogram holds exactly the rows whose   *)
(* weight is a number.                                                     *)
(***************************************************************************)
C15_WeightParseOrSentinel ==
    "all_raw_tracking_data" \in DOMAIN analytics =>
        LET recs == SelectSeq(analytics.all_raw_tracking_data,
                              LAMBDA e : HasTrackResults(e.raw_json))
        IN recs # << >> =>
            /\ analytics.shown = "dashboard"
            /\ Len(analytics.df_analytics) = Len(recs)
            /\ \A i \in 1..Len(recs) :
                  analytics.df_analytics[i].Weight_Value = ExpectedWeight(recs[i])
            /\ analytics.total_shipments = Len(recs)
            /\ analytics.delivered_shipments + analytics.exception_shipments
                  + analytics.in_transit_shipments = Len(recs)
            /\ analytics.valid_weights =
                  AtPositions(analytics.df_analytics,
                              { i \in 1..Len(recs) : HasWeight(recs[i]) })

\* a dashboard over a record whose weight value is 'N/A' and a record whose
\* weight is a number: two rows in the totals, one in the histogram
C15_Witness ==
    /\ analytics.shown = "dashboard"
    /\ analytics.total_shipments = 2
    /\ Len(analytics.valid_weights) = 1
    /\ \E i \in 1..2 :
          LET e == analytics.all_raw_tracking_data[i] IN
          /\ HasTrackResults(e.raw_json)
          /\ WeightList(e) # << >>
          /\ "value" \in DOMAIN WeightList(e)[1]
          /\ WeightList(e)[1].value = "N/A"

(***************************************************************************)
(* The three pages over the same response                                  *)
(***************************************************************************)
\* whether a page made a record of the response, and with which status
SingleOutcome ==
    IF single_page.shown = "Tracking Summary"
    THEN [record |-> TRUE, status |-> single_page.Current_Status]
    ELSE [record |-> FALSE]

ResultsOutcome == [record |-> TRUE, status |-> all_results[1].Status]

AnalyticsOutcome ==
    IF analytics.shown = "dashboard"
    THEN [record |-> TRUE, status |-> analytics.df_analytics[1].Status]
    ELSE [record |-> FALSE]

\* each of the three pages has handled one and the same response
SameResponse ==
    /\ "result" \in DOMAIN single_page
    /\ Len(all_results) = 1
    /\ "all_raw_tracking_data" \in DOMAIN analytics
    /\ Len(analytics.all_raw_tracking_data) = 1
    /\ Displayed[1].raw_json = single_page.result
    /\ analytics.all_raw_tracking_data[1].raw_json = single_page.result

(***************************************************************************)
(* C16: when the single page, the results page and the analytics page have *)
(* handled the same response, the three agree on whether it gives a record *)
(* and on the status of that record, default included.                     *)
(***************************************************************************)
C16_ViewsAgree ==
    SameResponse =>
        /\ SingleOutcome = ResultsOutcome
        /\ AnalyticsOutcome = ResultsOutcome

(***************************************************************************)
(* C17: when several events of the list share the largest parsed date, the *)
(* latest event shown is the first of them in list order; when no event    *)
(* has a date that parses, it is the first event of the list.              *)
(***************************************************************************)
C17_Fits(row, entry) ==
    LET evs == ScanEventsOf(entry) IN
    evs # << >> =>
        \E i \in 1..Len(evs) :
            /\ Shows(row, evs, i)
            /\ Cardinality(MaximalIn(evs)) >= 2 =>
                  i \in MaximalIn(evs) /\ \A j \in MaximalIn(evs) : i <= j
            /\ ParsableIn(evs) = {} => i = 1

\* C17: ties on the largest date go to the first event; the first event is shown when no date parses
C17_StableTieBreak == RowsFit(C17_Fits)

(***************************************************************************)
(* Proof of delivery                                                       *)
(***************************************************************************)
ImagesOf(raw) ==
    IF HasTrackResults(raw) /\ "availableImages" \in DOMAIN TrackInfoOf(raw)
    THEN TrackInfoOf(raw).availableImages
    ELSE << >>

HasType(img) == "type" \in DOMAIN img /\ img.type # ""

\* the type of the first entry, the sentinel when there is no entry or the
\* first entry has no type
TypeOfFirstEntry(imgs) ==
    IF imgs # << >> /\ HasType(imgs[1]) THEN imgs[1].type ELSE "N/A"

\* the type of the first entry that has a type, the sentinel when none has
TypeOfFirstTyped(imgs) ==
    IF \E i \in 1..Len(imgs) : HasType(imgs[i])
    THEN imgs[CHOOSE i \in 1..Len(imgs) :
                  HasType(imgs[i]) /\ \A j \in 1..(i - 1) : ~HasType(imgs[j])].type
    ELSE "N/A"

C18_FitsFirstEntry(row, entry) ==
    HasTrackResults(entry.raw_json) =>
        row.Proof_of_Delivery = TypeOfFirstEntry(ImagesOf(entry.raw_json))

(***************************************************************************)
(* C18 as claimed: on the results page and on the single page, the proof   *)
(* of delivery of a response is the type of the first entry of its         *)
(* availableImages list, and the sentinel when the list is empty or that   *)
(* entry has no type.                                                      *)
(***************************************************************************)
C18_ProofIsFirstEntry ==
    /\ RowsFit(C18_FitsFirstEntry)
    /\ single_page.shown = "Tracking Summary" =>
          single_page.Proof_of_Delivery = TypeOfFirstEntry(ImagesOf(single_page.result))

C18_FitsFirstTyped(row, entry) ==
    HasTrackResults(entry.raw_json) =>
        row.Proof_of_Delivery = TypeOfFirstTyped(ImagesOf(entry.raw_json))

(***************************************************************************)
(* C18 amended: on both pages the proof of delivery is the type of the     *)
(* first entry of availableImages that has a non-empty type, and the       *)
(* sentinel when the list is empty or no entry has one.                    *)
(***************************************************************************)
C18_ProofIsFirstTyped ==
    /\ RowsFit(C18_FitsFirstTyped)
    /\ single_page.shown = "Tracking Summary" =>
          single_page.Proof_of_Delivery = TypeOfFirstTyped(ImagesOf(single_page.result))

\* both pages show a response whose first image has no type and whose second
\* image has one; the results page shows that type
C18_Witness ==
    /\ Len(all_results) = 1
    /\ single_page.shown = "Tracking Summary"
    /\ single_page.result = Displayed[1].raw_json
    /\ Len(ImagesOf(Displayed[1].raw_json)) = 2
    /\ ~HasType(ImagesOf(Displayed[1].raw_json)[1])
    /\ HasType(ImagesOf(Displayed[1].raw_json)[2])
    /\ all_results[1].Proof_of_Delivery = ImagesOf(Displayed[1].raw_json)[2].type

(***************************************************************************)
(* C19: a run sends a statement to the store only while it saves an        *)
(* identifier whose fetch succeeded: every upsert or insert of its log     *)
(* comes after a successful tracking request with no other tracking        *)
(* request in between, and every record it wrote is for an identifier it   *)
(* fetched successfully.  So a run none of whose fetches succeeded has     *)
(* sent no statement and written no record, and no batch row exists for    *)
(* its reference_id unless another run uses the same reference.            *)
(***************************************************************************)
FetchedOk(p) ==
    { k \in 1..Len(calls[p]) : calls[p][k].fn = "track_shipment" /\ ~FetchFailed(calls[p][k]) }

C19_WritesOnlyForFetched ==
    \A p \in Sessions :
        /\ \A k \in 1..Len(calls[p]) :
              calls[p][k].fn \in {"upsert", "insert"} =>
                  \E j \in FetchedOk(p) :
                      /\ j < k
                      /\ \A m \in (j + 1)..(k - 1) : calls[p][m].fn \in {"upsert", "insert"}
        /\ \A i \in 1..Len(WrittenBy(p)) :
              \E j \in FetchedOk(p) : calls[p][j].tn = WrittenBy(p)[i].tracking_number
        /\ Len(WrittenBy(p)) <= Cardinality(FetchedOk(p))
        /\ FetchedOk(p) = {} =>
              /\ WrittenBy(p) = << >>
              /\ (\A q \in Sessions \ {p} : reference_id[q] # reference_id[p]) =>
                     RefIndex(references_data, reference_id[p]) = {}

\* a run over two identifiers has finished, both fetches failed, and the store is empty
C19_Witness ==
    /\ status["u1"] = "success"
    /\ Len(tracking_numbers["u1"]) = 2
    /\ Len(CallsTo("u1", "track_shipment")) = 2
    /\ FailedPositions("u1") = {1, 2}
    /\ references_data = << >>
    /\ tracking_datanew = << >>

(***************************************************************************)
(* Login and navigation                                                    *)
(***************************************************************************)
LoggedIn(ss) == "logged_in" \in DOMAIN ss /\ ss.logged_in

\* the step is a press of the button by session p
Pressed(p, button) ==
    /\ script_runs'[p] # script_runs[p] \/ session_state'[p] # session_state[p]
    /\ script_runs'[p].widget.button = button

C20_State ==
    \A p \in Sessions :
        /\ session_state[p] # EmptyDict =>
              session_state[p].current_page \in { "single", "bulk", "results", "analytics" }
        /\ \A k \in 1..Len(script_runs[p].runs) :
              LET run == script_runs[p].runs[k] IN
              run.page_logic # "none" =>
                  /\ run.logged_in
                  /\ run.fn = "main_app"
                  /\ run.page_logic \in { "single", "bulk", "results", "analytics" }

C20_Step ==
    \A p \in Sessions :
        /\ (LoggedIn(session_state'[p]) /\ ~LoggedIn(session_state[p])) =>
              /\ script_runs'[p].widget.button = "Login"
              /\ script_runs'[p].widget.username = "admin"
              /\ script_runs'[p].widget.password = "admin"
        /\ Pressed(p, "Logout") =>
              session_state'[p] = [logged_in |-> FALSE, current_page |-> "single"]

(***************************************************************************)
(* C20: in every script run that reaches the logic of a page, logged_in is *)
(* true and the page is one of the four; current_page is always one of the *)
(* four; logged_in becomes true only in a step that presses Login with     *)
(* admin/admin; a press of Logout leaves logged_in false and current_page  *)
(* 'single'.                                                               *)
(***************************************************************************)
C20_PagesBehindLogin == []C20_State /\ [][C20_Step]_vars

\* one session has logged in and logged out again, the other is logged in
\* and has gone to the results page
C20_Witness ==
    /\ script_runs["u1"].widget.button = "Logout"
    /\ ~LoggedIn(session_state["u1"])
    /\ LoggedIn(session_state["u2"])
    /\ session_state["u2"].current_page = "results"
    /\ script_runs["u2"].runs = << [fn |-> "main_app", page_logic |-> "results", logged_in |-> TRUE] >>

====
